---- MODULE Spec2Model ----
(***************************************************************************)
(* sea-query: the Value container (src/src/value.rs), its conversions to   *)
(* and from native types, the capability-gated predicates and accessors,   *)
(* the JSON bridge, and the SQL string-literal escape / unescape routines. *)
(*                                                                         *)
(* Two specifications:                                                     *)
(*   Spec        the Value operations, called in any order on a build      *)
(*               with any subset of the optional features;                 *)
(*   SpecEscape  escape_string followed by unescape_string on every        *)
(*               string of at most MaxLen characters.                      *)
(***************************************************************************)
EXTENDS Integers, Sequences, FiniteSets, TLC

VARIABLES
    features,   \* the cargo features this build was compiled with
    origin,     \* how `value` was constructed (constructor and its input)
    value,      \* the Value under inspection
    call,       \* the last operation called on `value`
    ret,        \* what that call produced: a return value or a panic
    pc,         \* escape pipeline: "start" -> "escaped" -> "done"
    src,        \* escape pipeline: the input string
    esc,        \* escape pipeline: escape_string(src)
    unesc       \* escape pipeline: unescape_string(esc)

vars == <<features, origin, value, call, ret, pc, src, esc, unesc>>
valueVars == <<features, origin, value, call, ret>>
escapeVars == <<pc, src, esc, unesc>>

(***************************************************************************)
(* Characters.  A string is a sequence of characters; the nine characters  *)
(* escape_string rewrites, the six letters unescape_string maps back, and  *)
(* one ordinary character.                                                 *)
(***************************************************************************)
BSLASH == "\\"
DQUOTE == "\""
SQUOTE == "'"
NUL == "NUL"
BS == "BS"
TAB == "TAB"
SUB == "SUB"
LF == "LF"
CR == "CR"

Alphabet ==
    {BSLASH, DQUOTE, SQUOTE, NUL, BS, TAB, SUB, LF, CR,
     "0", "b", "t", "z", "n", "r", "a"}

MaxLen == 3

Strings == UNION {[1..n -> Alphabet] : n \in 0..MaxLen}

(***************************************************************************)
(* str::replace with a one-character pattern: every occurrence of `from`,  *)
(* left to right, is replaced by the string `to`.                          *)
(***************************************************************************)
RECURSIVE replace(_, _, _)
replace(s, from, to) ==
    IF s = <<>> THEN <<>>
    ELSE IF Head(s) = from
         THEN to \o replace(Tail(s), from, to)
         ELSE <<Head(s)>> \o replace(Tail(s), from, to)

\* Mutant: the backslash substitution runs last instead of first.
escape_string_backslash_last(string) ==
    replace(replace(replace(replace(replace(replace(replace(replace(replace(
        string,
        DQUOTE, <<BSLASH, DQUOTE>>),
        SQUOTE, <<BSLASH, SQUOTE>>),
        NUL, <<BSLASH, "0">>),
        BS, <<BSLASH, "b">>),
        TAB, <<BSLASH, "t">>),
        SUB, <<BSLASH, "z">>),
        LF, <<BSLASH, "n">>),
        CR, <<BSLASH, "r">>),
        BSLASH, <<BSLASH, BSLASH>>)

\* escape_string: nine replace passes, chained in source order.
escape_string(string) ==
    replace(replace(replace(replace(replace(replace(replace(replace(replace(
        string,
        BSLASH, <<BSLASH, BSLASH>>),
        DQUOTE, <<BSLASH, DQUOTE>>),
        SQUOTE, <<BSLASH, SQUOTE>>),
        NUL, <<BSLASH, "0">>),
        BS, <<BSLASH, "b">>),
        TAB, <<BSLASH, "t">>),
        SUB, <<BSLASH, "z">>),
        LF, <<BSLASH, "n">>),
        CR, <<BSLASH, "r">>)

\* The match inside unescape_string's escape branch.
unescape_char(c) ==
    CASE c = "0" -> NUL
      [] c = "b" -> BS
      [] c = "t" -> TAB
      [] c = "z" -> SUB
      [] c = "n" -> LF
      [] c = "r" -> CR
      [] OTHER -> c

\* The for loop of unescape_string from position i on, with its two locals.
RECURSIVE unescape_loop(_, _, _, _)
unescape_loop(input, i, escape, output) ==
    IF i > Len(input) THEN output
    ELSE LET c == input[i] IN
         IF ~escape /\ c = BSLASH
         THEN unescape_loop(input, i + 1, TRUE, output)
         ELSE IF escape
              THEN unescape_loop(input, i + 1, FALSE, Append(output, unescape_char(c)))
              ELSE unescape_loop(input, i + 1, escape, Append(output, c))

\* Mutant: the escape branch copies the character instead of mapping it back.
unescape_string_no_table(input) ==
    LET RECURSIVE loop(_, _, _)
        loop(i, escape, output) ==
            IF i > Len(input) THEN output
            ELSE LET c == input[i] IN
                 IF ~escape /\ c = BSLASH
                 THEN loop(i + 1, TRUE, output)
                 ELSE loop(i + 1, FALSE, Append(output, c))
    IN loop(1, FALSE, <<>>)

unescape_string(input) == unescape_loop(input, 1, FALSE, <<>>)


(***************************************************************************)
(* Build configuration.                                                    *)
(***************************************************************************)
Features == {"with-json", "with-chrono", "with-uuid"}

\* The variants of enum Value that exist in a build with features f.
Kinds(f) ==
    {"Null", "Bool", "TinyInt", "SmallInt", "Int", "BigInt",
     "TinyUnsigned", "SmallUnsigned", "Unsigned", "BigUnsigned",
     "Float", "Double", "String", "Bytes"}
    \cup (IF "with-json" \in f THEN {"Json"} ELSE {})
    \cup (IF "with-chrono" \in f THEN {"DateTime"} ELSE {})
    \cup (IF "with-uuid" \in f THEN {"Uuid"} ELSE {})

\* A Value: the variant and its payload.
Val(kind, x) == [kind |-> kind, x |-> x]
Null == Val("Null", "null")

\* derive(PartialEq) on Value: same variant, then equal payloads.
ValueEq(a, b) == a.kind = b.kind /\ a.x = b.x

\* What a call produces: a returned value or a panic with its message.
Ok(v) == [tag |-> "ok", v |-> v]
Panic(msg) == [tag |-> "panic", v |-> msg]

\* Result::Err carrying a variant of enum Error.
Err(e) == [tag |-> "err", v |-> e]

\* Option<T>
Some(x) == <<"Some", x>>
None == <<"None">>

\* enum Error of error.rs
ErrorVariants ==
    {"ColValNumMismatch", "FailToConvert", "Infallible",
     "TryFromIntError", "FromUtf8Error"}

(***************************************************************************)
(* Native types.  The macro invocations fix which variant each type maps   *)
(* to.  Payloads are carried unchanged, so each type is given a few        *)
(* representative values, its extremes included; u32, i64 and u64 values   *)
(* are written as decimal strings (they exceed TLC's integer range),       *)
(* floats as their decimal text.                                           *)
(***************************************************************************)
NativeTypes ==
    {"bool", "i8", "i16", "i32", "i64", "u8", "u16", "u32", "u64",
     "f32", "f64", "Vec<u8>", "String"}

KindOf(T) ==
    CASE T = "bool" -> "Bool"
      [] T = "i8" -> "TinyInt"
      [] T = "i16" -> "SmallInt"
      [] T = "i32" -> "Int"
      [] T = "i64" -> "BigInt"
      [] T = "u8" -> "TinyUnsigned"
      [] T = "u16" -> "SmallUnsigned"
      [] T = "u32" -> "Unsigned"
      [] T = "u64" -> "BigUnsigned"
      [] T = "f32" -> "Float"
      [] T = "f64" -> "Double"
      [] T = "Vec<u8>" -> "Bytes"
      [] T = "String" -> "String"

NativeValues(T) ==
    CASE T = "bool" -> {FALSE, TRUE}
      [] T = "i8" -> {-128, 0, 127}
      [] T = "i16" -> {-32768, 0, 32767}
      [] T = "i32" -> {-1, 0, 1, 1073741824}
      [] T = "i64" -> {"-9223372036854775808", "0", "8589934592"}
      [] T = "u8" -> {0, 255}
      [] T = "u16" -> {0, 65535}
      [] T = "u32" -> {"0", "4294967295"}
      [] T = "u64" -> {"0", "18446744073709551615"}
      [] T = "f32" -> {"0.0", "1.5"}
      [] T = "f64" -> {"0.0", "-2.25"}
      [] T = "Vec<u8>" -> {<<>>, <<0>>, <<104, 105>>}
      [] T = "String" -> {<<>>, <<"0">>, <<"h", "i">>}

Options(T) == {None} \cup {Some(v) : v \in NativeValues(T)}

\* Mutant: a zero / false / empty input is stored as NULL.
from_falsy_as_null(T, x) ==
    IF \/ T = "bool" /\ x = FALSE
       \/ T \in {"i8", "i16", "i32", "u8", "u16"} /\ x = 0
       \/ T \in {"i64", "u32", "u64"} /\ x = "0"
       \/ T \in {"Vec<u8>", "String"} /\ x = <<>>
    THEN Null
    ELSE Val(KindOf(T), x)

\* impl From<$type> for Value (both macros; the Box is transparent).
from(T, x) == Val(KindOf(T), x)

\* impl From<Option<$type>> for Value
from_option(T, x) ==
    IF x = None THEN Null ELSE Val(KindOf(T), x[2])

\* Mutant: any integer variant is accepted and its payload handed back.
unwrap_coercing(T, v) ==
    LET IntKinds == {"TinyInt", "SmallInt", "Int", "TinyUnsigned", "SmallUnsigned"} IN
    IF v.kind = KindOf(T) \/ (KindOf(T) \in IntKinds /\ v.kind \in IntKinds)
    THEN Ok(v.x)
    ELSE Panic("type error")

\* impl ValueType for $type: unwrap
unwrap(T, v) ==
    IF v.kind = KindOf(T) THEN Ok(v.x) ELSE Panic("type error")

\* impl ValueType for Option<$type>: unwrap
unwrap_option(T, v) ==
    IF v.kind = KindOf(T) THEN Ok(Some(v.x)) ELSE Panic("type error")


(***************************************************************************)
(* serde_json::Value.  A Number is described by what serde_json's          *)
(* is_f64 / is_i64 / is_u64 answer for it and by the payload the matching  *)
(* as_* accessor returns; the last one is a number none of the three       *)
(* accepts (an out-of-range literal under arbitrary precision).            *)
(***************************************************************************)
Num(f, i, u, x) == [is_f64 |-> f, is_i64 |-> i, is_u64 |-> u, x |-> x]

Json(t, v) == [t |-> t, v |-> v]

\* The JSON inputs, one or more of each serde_json variant (a tuple: the
\* payloads are of different sorts).
JsonValues ==
    <<Json("Null", "null"), Json("Bool", FALSE), Json("Bool", TRUE),
      Json("Number", Num(TRUE, FALSE, FALSE, "1.5")),
      Json("Number", Num(FALSE, TRUE, FALSE, "-1")),
      Json("Number", Num(FALSE, TRUE, TRUE, "1")),
      Json("Number", Num(FALSE, FALSE, TRUE, "18446744073709551615")),
      Json("Number", Num(FALSE, FALSE, FALSE, "1e999")),
      Json("String", <<"h", "i">>), Json("Array", <<>>), Json("Object", "{}")>>

\* The payloads given to From<Json>, From<NaiveDateTime> and From<Uuid>.
DateTimes == {"2020-01-01 00:00:00"}
Uuids == {"00000000-0000-0000-0000-000000000000"}

\* Mutant: a JSON boolean is kept as the boolean variant.
json_value_to_sea_value_bool_kept(v) ==
    CASE v.t = "Null" -> Ok(Null)
      [] v.t = "Bool" -> Ok(Val("Bool", v.v))
      [] v.t = "Number" ->
            IF v.v.is_f64 THEN Ok(Val("Double", v.v.x))
            ELSE IF v.v.is_i64 THEN Ok(Val("BigInt", v.v.x))
            ELSE IF v.v.is_u64 THEN Ok(Val("BigUnsigned", v.v.x))
            ELSE Panic("not implemented")
      [] v.t = "String" -> Ok(Val("String", v.v))
      [] v.t = "Array" -> Panic("not implemented")
      [] v.t = "Object" -> Ok(Val("Json", v))

\* json_value_to_sea_value; bool.into() for i32 is 0 or 1.
json_value_to_sea_value(v) ==
    CASE v.t = "Null" -> Ok(Null)
      [] v.t = "Bool" -> Ok(Val("Int", IF v.v THEN 1 ELSE 0))
      [] v.t = "Number" ->
            IF v.v.is_f64 THEN Ok(Val("Double", v.v.x))
            ELSE IF v.v.is_i64 THEN Ok(Val("BigInt", v.v.x))
            ELSE IF v.v.is_u64 THEN Ok(Val("BigUnsigned", v.v.x))
            ELSE Panic("not implemented")
      [] v.t = "String" -> Ok(Val("String", v.v))
      [] v.t = "Array" -> Panic("not implemented")
      [] v.t = "Object" -> Ok(Val("Json", v))

(***************************************************************************)
(* Capability predicates and accessors; f is the build's feature set.      *)
(***************************************************************************)
\* Mutant: is_json tests for the date-time variant.
is_json_wrong_variant(f, v) == v.kind = "DateTime"

is_json(f, v) ==
    IF "with-json" \in f THEN v.kind = "Json" ELSE FALSE

is_date_time(f, v) ==
    IF "with-chrono" \in f THEN v.kind = "DateTime" ELSE FALSE

is_uuid(f, v) ==
    IF "with-uuid" \in f THEN v.kind = "Uuid" ELSE FALSE

as_ref_json(f, v) ==
    IF "with-json" \in f
    THEN IF v.kind = "Json" THEN Ok(v.x) ELSE Panic("not Value::Json")
    ELSE Panic("not Value::Json")

as_ref_date_time(f, v) ==
    IF "with-chrono" \in f
    THEN IF v.kind = "DateTime" THEN Ok(v.x) ELSE Panic("not Value::DateTime")
    ELSE Panic("not Value::DateTime")

as_ref_uuid(f, v) ==
    IF "with-uuid" \in f
    THEN IF v.kind = "Uuid" THEN Ok(v.x) ELSE Panic("not Value::Uuid")
    ELSE Panic("not Value::Uuid")

\* Mutant: the accessors are compiled only with their feature.
Callable_gated(f) ==
    {"from", "from_option", "unwrap", "unwrap_option",
     "is_json", "is_date_time", "is_uuid", "size_of"}
    \cup (IF "with-json" \in f
          THEN {"from_json", "json_value_to_sea_value", "as_ref_json"} ELSE {})
    \cup (IF "with-chrono" \in f THEN {"from_date_time", "as_ref_date_time"} ELSE {})
    \cup (IF "with-uuid" \in f THEN {"from_uuid", "as_ref_uuid"} ELSE {})

\* The entry points that exist in a build with features f (the cfg attributes).
Callable(f) ==
    {"from", "from_option", "unwrap", "unwrap_option",
     "is_json", "as_ref_json", "is_date_time", "as_ref_date_time",
     "is_uuid", "as_ref_uuid", "size_of"}
    \cup (IF "with-json" \in f THEN {"from_json", "json_value_to_sea_value"} ELSE {})
    \cup (IF "with-chrono" \in f THEN {"from_date_time"} ELSE {})
    \cup (IF "with-uuid" \in f THEN {"from_uuid"} ELSE {})

(***************************************************************************)
(* Memory layout of enum Value, as rustc lays out an enum with several     *)
(* data-carrying variants and no usable niche (i64, u64 and f64 use every  *)
(* bit pattern): a one-byte tag, then the payload at its alignment, the    *)
(* whole rounded up to the largest alignment.                              *)
(***************************************************************************)
Targets == {"x86_64", "armv7", "i686"}

PointerBytes(t) == IF t = "x86_64" THEN 8 ELSE 4

\* Size of a variant's payload on target t; boxed payloads are one pointer.
PayloadBytes(kind, t) ==
    CASE kind = "Null" -> 0
      [] kind \in {"Bool", "TinyInt", "TinyUnsigned"} -> 1
      [] kind \in {"SmallInt", "SmallUnsigned"} -> 2
      [] kind \in {"Int", "Unsigned", "Float"} -> 4
      [] kind \in {"BigInt", "BigUnsigned", "Double"} -> 8
      [] OTHER -> PointerBytes(t)

\* Alignment of a variant's payload; 8-byte scalars align to 4 on i686.
PayloadAlign(kind, t) ==
    CASE kind = "Null" -> 1
      [] kind \in {"BigInt", "BigUnsigned", "Double"} -> IF t = "i686" THEN 4 ELSE 8
      [] OTHER -> PayloadBytes(kind, t)

RoundUp(n, a) == ((n + a - 1) \div a) * a

SetMax(S) == CHOOSE m \in S : \A n \in S : n <= m

\* std::mem::size_of::<Value>() in a build with features f for target t.
size_of_Value(f, t) ==
    LET align == SetMax({PayloadAlign(k, t) : k \in Kinds(f)})
        VariantBytes(k) == RoundUp(1, PayloadAlign(k, t)) + PayloadBytes(k, t)
    IN RoundUp(SetMax({VariantBytes(k) : k \in Kinds(f)}), align)


(***************************************************************************)
(* The Value operations as a state machine: a constructor replaces the     *)
(* Value under inspection, every other operation is called on it and its   *)
(* outcome recorded.                                                       *)
(***************************************************************************)
Origin(via, T, x) == [via |-> via, type |-> T, v |-> x]
Call(op, arg) == [op |-> op, arg |-> arg]
NoCall == Call("none", "-")
NoRet == Ok("-")

InitEscapeIdle ==
    /\ pc = "start"
    /\ src = <<>>
    /\ esc = <<>>
    /\ unesc = <<>>

InitValueIdle ==
    /\ origin = Origin("Null", "-", "null")
    /\ value = Null
    /\ call = NoCall
    /\ ret = NoRet

Init ==
    /\ features \in SUBSET Features
    /\ InitValueIdle
    /\ InitEscapeIdle

\* A constructor ran: `value` is its result, no call has been made on it yet.
Constructed(via, T, x, v) ==
    /\ origin' = Origin(via, T, x)
    /\ value' = v
    /\ call' = NoCall
    /\ ret' = NoRet
    /\ UNCHANGED <<features, escapeVars>>

\* An operation ran on `value` and produced r.
Invoked(op, arg, r) ==
    /\ call' = Call(op, arg)
    /\ ret' = r
    /\ UNCHANGED <<features, origin, value, escapeVars>>

From(T, x) ==
    /\ "from" \in Callable(features)
    /\ Constructed("from", T, x, from(T, x))

FromOption(T, x) ==
    /\ "from_option" \in Callable(features)
    /\ Constructed("from_option", T, x, from_option(T, x))

FromJson(x) ==
    /\ "from_json" \in Callable(features)
    /\ Constructed("from_json", "Json", x, Val("Json", x))

FromDateTime(x) ==
    /\ "from_date_time" \in Callable(features)
    /\ Constructed("from_date_time", "NaiveDateTime", x, Val("DateTime", x))

FromUuid(x) ==
    /\ "from_uuid" \in Callable(features)
    /\ Constructed("from_uuid", "Uuid", x, Val("Uuid", x))

Unwrap(T) ==
    /\ "unwrap" \in Callable(features)
    /\ Invoked("unwrap", T, unwrap(T, value))

UnwrapOption(T) ==
    /\ "unwrap_option" \in Callable(features)
    /\ Invoked("unwrap_option", T, unwrap_option(T, value))

IsJson ==
    /\ "is_json" \in Callable(features)
    /\ Invoked("is_json", "-", Ok(is_json(features, value)))

IsDateTime ==
    /\ "is_date_time" \in Callable(features)
    /\ Invoked("is_date_time", "-", Ok(is_date_time(features, value)))

IsUuid ==
    /\ "is_uuid" \in Callable(features)
    /\ Invoked("is_uuid", "-", Ok(is_uuid(features, value)))

AsRefJson ==
    /\ "as_ref_json" \in Callable(features)
    /\ Invoked("as_ref_json", "-", as_ref_json(features, value))

AsRefDateTime ==
    /\ "as_ref_date_time" \in Callable(features)
    /\ Invoked("as_ref_date_time", "-", as_ref_date_time(features, value))

AsRefUuid ==
    /\ "as_ref_uuid" \in Callable(features)
    /\ Invoked("as_ref_uuid", "-", as_ref_uuid(features, value))

SizeOf(t) ==
    /\ "size_of" \in Callable(features)
    /\ Invoked("size_of", t, Ok(size_of_Value(features, t)))

\* A successful conversion yields the Value inspected next; a panic yields none.
JsonValueToSeaValue(j) ==
    LET r == json_value_to_sea_value(j) IN
    /\ "json_value_to_sea_value" \in Callable(features)
    /\ call' = Call("json_value_to_sea_value", j)
    /\ ret' = r
    /\ IF r.tag = "ok"
       THEN /\ origin' = Origin("json_value_to_sea_value", "Json", j)
            /\ value' = r.v
       ELSE UNCHANGED <<origin, value>>
    /\ UNCHANGED <<features, escapeVars>>

Next ==
    \/ \E T \in NativeTypes : \E x \in NativeValues(T) : From(T, x)
    \/ \E T \in NativeTypes : \E x \in Options(T) : FromOption(T, x)
    \/ \E i \in DOMAIN JsonValues : FromJson(JsonValues[i])
    \/ \E x \in DateTimes : FromDateTime(x)
    \/ \E x \in Uuids : FromUuid(x)
    \/ \E T \in NativeTypes : Unwrap(T)
    \/ \E T \in NativeTypes : UnwrapOption(T)
    \/ IsJson
    \/ IsDateTime
    \/ IsUuid
    \/ AsRefJson
    \/ AsRefDateTime
    \/ AsRefUuid
    \/ \E t \in Targets : SizeOf(t)
    \/ \E i \in DOMAIN JsonValues : JsonValueToSeaValue(JsonValues[i])

Spec == Init /\ [][Next]_vars

(***************************************************************************)
(* The escape pipeline: escape_string on the input, then unescape_string   *)
(* on its result.                                                          *)
(***************************************************************************)
InitEscape ==
    /\ features = {}
    /\ InitValueIdle
    /\ pc = "start"
    /\ src \in Strings
    /\ esc = <<>>
    /\ unesc = <<>>

EscapeString ==
    /\ pc = "start"
    /\ esc' = escape_string(src)
    /\ pc' = "escaped"
    /\ UNCHANGED <<src, unesc, valueVars>>

UnescapeString ==
    /\ pc = "escaped"
    /\ unesc' = unescape_string(esc)
    /\ pc' = "done"
    /\ UNCHANGED <<src, esc, valueVars>>

NextEscape == EscapeString \/ UnescapeString

SpecEscape == InitEscape /\ [][NextEscape]_vars


(***************************************************************************)
(* Properties of the escape pipeline (checked under SpecEscape).           *)
(***************************************************************************)

\* C1: for every string s, unescape_string(escape_string(s)) equals s.
C1_RoundTrip == pc = "done" => unesc = src

\* C1 witness: a backslash before the letter n, then a real line feed, has
\* gone through both functions.
C1_Witness ==
    /\ pc = "done"
    /\ src = <<BSLASH, "n", LF>>
    /\ esc = <<BSLASH, BSLASH, "n", BSLASH, "n">>
    /\ unesc = src

\* The two-character sequence the substitution table gives a character.
EscapeOne(c) ==
    CASE c = BSLASH -> <<BSLASH, BSLASH>>
      [] c = DQUOTE -> <<BSLASH, DQUOTE>>
      [] c = SQUOTE -> <<BSLASH, SQUOTE>>
      [] c = NUL -> <<BSLASH, "0">>
      [] c = BS -> <<BSLASH, "b">>
      [] c = TAB -> <<BSLASH, "t">>
      [] c = SUB -> <<BSLASH, "z">>
      [] c = LF -> <<BSLASH, "n">>
      [] c = CR -> <<BSLASH, "r">>
      [] OTHER -> <<c>>

\* One left-to-right pass applying the table to each input character.
RECURSIVE OnePass(_)
OnePass(s) == IF s = <<>> THEN <<>> ELSE EscapeOne(Head(s)) \o OnePass(Tail(s))

\* C7: escape_string(s) equals one left-to-right pass that replaces each of
\* the nine special characters by its two-character backslash sequence and
\* copies every other character; no introduced backslash is doubled.
C7_OnePass == pc # "start" => esc = OnePass(src)

\* C7 witness: a quote, a backslash and a line feed were escaped, the
\* backslashes introduced for the quote and the line feed left single.
C7_Witness ==
    /\ pc = "escaped"
    /\ src = <<DQUOTE, BSLASH, LF>>
    /\ esc = <<BSLASH, DQUOTE, BSLASH, BSLASH, BSLASH, "n">>

(***************************************************************************)
(* Properties of the Value operations (checked under Spec).                *)
(***************************************************************************)
ClaimTypes == NativeTypes \ {"f32", "f64"}

\* C2: for every supported type T (floats aside) and value v, From<T> yields
\* a Value of T's variant, unwrap::<T> on it returns v, and no other value of
\* T constructs an equal Value.
C2_ConstructExtract ==
    (origin.via = "from" /\ origin.type \in ClaimTypes) =>
        /\ value.kind = KindOf(origin.type)
        /\ \A y \in NativeValues(origin.type) :
              y # origin.v => ~ValueEq(value, from(origin.type, y))
        /\ (call.op = "unwrap" /\ call.arg = origin.type) =>
              (ret.tag = "ok" /\ ret.v = origin.v)

\* C2 witness: u64::MAX was constructed and extracted again.
C2_Witness ==
    /\ origin.via = "from"
    /\ origin.type = "u64"
    /\ origin.v = "18446744073709551615"
    /\ call.op = "unwrap"
    /\ call.arg = "u64"
    /\ ret.tag = "ok"
    /\ ret.v = "18446744073709551615"

\* C3: extracting Option<T> from Value::Null returns None and does not panic.
C3_OptionFromNull ==
    (call.op = "unwrap_option" /\ value.kind = "Null") =>
        (ret.tag = "ok" /\ ret.v = None)

\* C4: extracting T from a Value of any other variant (another integer width
\* or signedness, Null) panics; nothing is returned and nothing is coerced.
C4_MismatchPanics ==
    (call.op = "unwrap" /\ value.kind # KindOf(call.arg)) =>
        (ret.tag = "panic" /\ ret.v = "type error")

\* C4 witness: i8 was extracted from a SmallInt (i16) Value.
C4_Witness ==
    /\ call.op = "unwrap"
    /\ call.arg = "i8"
    /\ value.kind = "SmallInt"
    /\ ret.tag = "panic"

\* C5: converting a JSON array, or a number that is neither f64, i64 nor u64,
\* returns the typed error Error::FailToConvert instead of aborting.
C5_FailToConvert ==
    (/\ call.op = "json_value_to_sea_value"
     /\ \/ call.arg.t = "Array"
        \/ /\ call.arg.t = "Number"
           /\ ~call.arg.v.is_f64
           /\ ~call.arg.v.is_i64
           /\ ~call.arg.v.is_u64) =>
        (ret.tag = "err" /\ ret.v = "FailToConvert" /\ ret.v \in ErrorVariants)

\* C6: json_value_to_sea_value maps a JSON boolean to the Int variant, false
\* to 0 and true to 1; the result extracts as i32 and extracting it as bool
\* panics.
C6_BoolToInt ==
    (origin.via = "json_value_to_sea_value" /\ origin.v.t = "Bool") =>
        /\ value.kind = "Int"
        /\ value.x = (IF origin.v.v THEN 1 ELSE 0)
        /\ (call.op = "unwrap" /\ call.arg = "i32") =>
              (ret.tag = "ok" /\ ret.v = (IF origin.v.v THEN 1 ELSE 0))
        /\ (call.op = "unwrap" /\ call.arg = "bool") => ret.tag = "panic"

\* C6 witness: JSON true was converted and extracted as the i32 1.
C6_Witness ==
    /\ origin.via = "json_value_to_sea_value"
    /\ origin.v.t = "Bool"
    /\ origin.v.v = TRUE
    /\ call.op = "unwrap"
    /\ call.arg = "i32"
    /\ ret.tag = "ok"
    /\ ret.v = 1

\* What a capability predicate must answer: false when the feature is off,
\* otherwise whether the Value holds the variant.
PredicateAnswer(feature, kind) ==
    /\ ret.tag = "ok"
    /\ IF feature \in features THEN ret.v = (value.kind = kind) ELSE ret.v = FALSE

\* C8: with its feature disabled is_json / is_date_time / is_uuid returns
\* false for every Value and never panics; with it enabled the predicate is
\* true exactly when the Value holds that variant.
C8_Predicates ==
    /\ call.op = "is_json" => PredicateAnswer("with-json", "Json")
    /\ call.op = "is_date_time" => PredicateAnswer("with-chrono", "DateTime")
    /\ call.op = "is_uuid" => PredicateAnswer("with-uuid", "Uuid")

\* C8 witness: is_json answered false on a DateTime Value in a build without
\* with-json.
C8_Witness ==
    /\ "with-json" \notin features
    /\ value.kind = "DateTime"
    /\ call.op = "is_json"
    /\ ret.tag = "ok"
    /\ ret.v = FALSE

AccessorPanics(op, msg) ==
    /\ op \in Callable(features)
    /\ call.op = op => (ret.tag = "panic" /\ ret.v = msg)

C10_OnePointer ==
    call.op = "size_of" => (ret.tag = "ok" /\ ret.v = PointerBytes(call.arg))

====
